---- MODULE Spec2Model ----
(***************************************************************************)
(* Agent template prototype: the configuration normaliser                  *)
(* (createAgentTemplate), the process-wide agent registry of the HTTP      *)
(* server (agentInstances, createAgentHandler, interactAgentHandler,       *)
(* healthCheckHandler), the conversation helpers (simulateConversation,    *)
(* streamConversation) and the command-line demo (runDemo).                *)
(*                                                                         *)
(* A JavaScript string is a sequence of one-character strings, so that     *)
(* toLowerCase, replace(/\s+/g, '_'), trim, parseInt and template literals *)
(* are computed character by character.  A JavaScript value is a record    *)
(* [t, s, n]: t is its type tag, s its characters when it is a string and  *)
(* n its value when it is a number.                                        *)
(***************************************************************************)
EXTENDS Integers, Sequences, FiniteSets, TLC

VARIABLES
    now,             \* the value Date.now() returns
    agentInstances,  \* own properties of the agentInstances object: id -> Agent
    proto,           \* the [[Prototype]] of the agentInstances object
    mastraInstance,  \* the agents record handed to the last new Mastra({agents})
    views,           \* history: id -> the agent view of the last create response for it
    created,         \* history: the ids derived by successful creates
    createReq,       \* the body of the last POST /create-agent
    createRes,       \* the response of the last POST /create-agent
    healthRes,       \* the response of the last GET /health
    reqs,            \* the POST /interact/:agentId requests, by slot
    cli              \* the command-line demo (runDemo)

vars == <<now, agentInstances, proto, mastraInstance, views, created,
          createReq, createRes, healthRes, reqs, cli>>

----------------------------------------------------------------------------
(* Bounds of the model *)

MaxTicks == 1
MaxRequests == 2
MaxFragments == 2
MaxMessages == 2

\* Date.now() at process start
StartTime == 41

\* maxMemoryMessages when the configuration gives none
DefaultMaxMemoryMessages == 10

----------------------------------------------------------------------------
(* Characters and strings *)

Whitespace == {" ", "\t", "\n"}

UpperCase == <<"A","B","C","D","E","F","G","H","I","J","K","L","M",
               "N","O","P","Q","R","S","T","U","V","W","X","Y","Z">>
LowerCase == <<"a","b","c","d","e","f","g","h","i","j","k","l","m",
               "n","o","p","q","r","s","t","u","v","w","x","y","z">>
Digits == <<"0","1","2","3","4","5","6","7","8","9">>

Range(f) == { f[i] : i \in DOMAIN f }

IndexOf(seq, c) == CHOOSE i \in DOMAIN seq : seq[i] = c

\* String.prototype.toLowerCase, one character
LowerChar(c) == IF c \in Range(UpperCase) THEN LowerCase[IndexOf(UpperCase, c)] ELSE c

\* String.prototype.toLowerCase
ToLowerCase(s) == [i \in DOMAIN s |-> LowerChar(s[i])]

RECURSIVE ReplaceWsFrom(_, _)
ReplaceWsFrom(s, i) ==
    IF i > Len(s) THEN <<>>
    ELSE IF s[i] \in Whitespace
         THEN IF i > 1 /\ s[i - 1] \in Whitespace
              THEN ReplaceWsFrom(s, i + 1)
              ELSE <<"_">> \o ReplaceWsFrom(s, i + 1)
         ELSE <<s[i]>> \o ReplaceWsFrom(s, i + 1)

\* s.replace(/\s+/g, '_'): every maximal run of whitespace becomes one underscore
ReplaceWhitespaceRuns(s) == ReplaceWsFrom(s, 1)

RECURSIVE TrimStart(_)
TrimStart(s) == IF s # <<>> /\ Head(s) \in Whitespace THEN TrimStart(Tail(s)) ELSE s

RECURSIVE TrimEnd(_)
TrimEnd(s) ==
    IF s # <<>> /\ s[Len(s)] \in Whitespace THEN TrimEnd(SubSeq(s, 1, Len(s) - 1)) ELSE s

\* String.prototype.trim
Trim(s) == TrimEnd(TrimStart(s))

RECURSIVE NumToStr(_)
\* `${n}` for a non-negative integer n
NumToStr(n) == IF n < 10 THEN <<Digits[n + 1]>> ELSE NumToStr(n \div 10) \o <<Digits[(n % 10) + 1]>>

RECURSIVE Concat(_)
\* the fragments of a sequence appended in order (fullResponse += chunk)
Concat(ss) == IF ss = <<>> THEN <<>> ELSE Head(ss) \o Concat(Tail(ss))

IsPrefix(p, s) == Len(p) <= Len(s) /\ SubSeq(s, 1, Len(p)) = p

----------------------------------------------------------------------------
(* JavaScript values *)

Undefined == [t |-> "undefined", s |-> <<>>, n |-> 0]
NaN == [t |-> "NaN", s |-> <<>>, n |-> 0]
StrV(s) == [t |-> "string", s |-> s, n |-> 0]
NumV(n) == [t |-> "number", s |-> <<>>, n |-> n]

\* the values the operators !v and v || d treat as false
Falsy(v) ==
    \/ v.t \in {"undefined", "NaN"}
    \/ v.t = "string" /\ v.s = <<>>
    \/ v.t = "number" /\ v.n = 0

\* v || d
OrElse(v, d) == IF Falsy(v) THEN d ELSE v

DigitValue(c) == IndexOf(Digits, c) - 1

RECURSIVE ParseDigits(_, _)
\* the value of the longest prefix of decimal digits of s, after acc
ParseDigits(s, acc) ==
    IF s # <<>> /\ Head(s) \in Range(Digits)
    THEN ParseDigits(Tail(s), 10 * acc + DigitValue(Head(s)))
    ELSE acc

\* parseInt(s, 10)
ParseInt(s) ==
    LET t == TrimStart(s)
        neg == t # <<>> /\ Head(t) = "-"
        u == IF t # <<>> /\ Head(t) \in {"-", "+"} THEN Tail(t) ELSE t
    IN IF u = <<>> \/ Head(u) \notin Range(Digits) THEN NaN
       ELSE NumV(IF neg THEN 0 - ParseDigits(u, 0) ELSE ParseDigits(u, 0))

----------------------------------------------------------------------------
(* String constants of the program *)

DefaultName ==
    <<"B","a","s","e"," ","A","g","e","n","t">>

DefaultInstructions ==
    <<"Y","o","u"," ","a","r","e"," ","a"," ","h","e","l","p","f","u","l",
      " ","a","s","s","i","s","t","a","n","t",".">>

DefaultPersonality ==
    <<"n","e","u","t","r","a","l">>

DefaultModel ==
    <<"q","w","e","n","-","2",".","5","-","3","2","b">>

DemoName ==
    <<"D","e","m","o"," ","A","g","e","n","t">>

DemoShownModel ==
    <<"g","e","m","i","n","i","-","1",".","5","-","f","l","a","s","h","-",
      "l","a","t","e","s","t">>

AgentPrefix ==
    <<"a","g","e","n","t","_">>

ThreadPrefix ==
    <<"t","h","r","e","a","d","_">>

UserPrefix ==
    <<"u","s","e","r","_">>

NameIs ==
    <<"Y","o","u","r"," ","n","a","m","e"," ","i","s"," ">>

RespondInA ==
    <<"P","l","e","a","s","e"," ","r","e","s","p","o","n","d"," ","i","n",
      " ","a"," ">>

Tone ==
    <<" ","t","o","n","e",".">>

Apology ==
    <<"S","o","r","r","y",","," ","I"," ","e","n","c","o","u","n","t","e",
      "r","e","d"," ","a","n"," ","e","r","r","o","r"," ","w","h","i","l",
      "e"," ","p","r","o","c","e","s","s","i","n","g"," ","y","o","u","r",
      " ","r","e","q","u","e","s","t",".">>

Exit ==
    <<"e","x","i","t">>

ProtoKey ==
    <<"_","_","p","r","o","t","o","_","_">>

ConstructorKey ==
    <<"c","o","n","s","t","r","u","c","t","o","r">>


----------------------------------------------------------------------------
(* Strings used as inputs *)

FriendlyBot ==
    <<"F","r","i","e","n","d","l","y"," ","B","o","t">>

FriendlyBotLower ==
    <<"f","r","i","e","n","d","l","y"," ","b","o","t">>

FriendlyBotId ==
    <<"f","r","i","e","n","d","l","y","_","b","o","t">>

MultiSpace ==
    <<" "," ","m","u","l","t","i"," "," "," ","s","p","a","c","e"," "," ">>

MultiSpaceId ==
    <<"_","m","u","l","t","i","_","s","p","a","c","e","_">>

MultiSpaceTrimmedId ==
    <<"m","u","l","t","i","_","s","p","a","c","e">>

TabbedName ==
    <<"T","a","b","\t","B","o","t","\n">>

BeKind ==
    <<"B","e"," ","k","i","n","d",".">>

PaddedInstructions ==
    <<" ","B","e"," ","b","r","i","e","f",".","\n">>

Friendly ==
    <<"f","r","i","e","n","d","l","y">>

Formal ==
    <<"f","o","r","m","a","l">>

Gpt4oMini ==
    <<"g","p","t","-","4","o","-","m","i","n","i">>

Hello ==
    <<"H","e","l","l","o">>

NobodyId ==
    <<"n","o","b","o","d","y">>

T1 ==
    <<"t","1">>

U1 ==
    <<"u","1">>

----------------------------------------------------------------------------
(* Agent configuration and the configuration normaliser *)

\* AgentConfig: every field optional
Config(name, instructions, personality, model, maxMemoryMessages) ==
    [name |-> name, instructions |-> instructions, personality |-> personality,
     model |-> model, maxMemoryMessages |-> maxMemoryMessages]

EmptyConfig == Config(Undefined, Undefined, Undefined, Undefined, Undefined)

\* the template literal of createAgentTemplate, before trim()
PromptTemplate(instructions, name, personality) ==
    <<"\n">> \o instructions \o <<"\n">> \o NameIs \o name \o <<".", "\n">>
        \o RespondInA \o personality \o Tone \o <<"\n", " ", " ">>

\* the prompt with the call of trim() left out
FullInstructionsUntrimmed(instructions, name, personality) ==
    PromptTemplate(instructions, name, personality)

\* fullInstructions of createAgentTemplate
FullInstructions(instructions, name, personality) ==
    Trim(PromptTemplate(instructions, name, personality))

\* a value that is not an Agent, as a registry lookup can return it
NonAgent(kind) == [kind |-> kind, name |-> <<>>, instructions |-> <<>>, model |-> <<>>]

\* new Agent({name, instructions, model})
NewAgent(name, instructions, model) ==
    [kind |-> "agent", name |-> name, instructions |-> instructions, model |-> model]

\* createAgentTemplate(config)
CreateAgentTemplate(config) ==
    LET name == OrElse(config.name, StrV(DefaultName)).s
        instructions == OrElse(config.instructions, StrV(DefaultInstructions)).s
        personality == OrElse(config.personality, StrV(DefaultPersonality)).s
        modelName == OrElse(config.model, StrV(DefaultModel)).s
    IN NewAgent(name, FullInstructions(instructions, name, personality), modelName)

\* the derivation with the pattern /\s/g: one underscore for each whitespace character
DeriveIdentityEachSpace(name) ==
    [i \in DOMAIN name |-> IF name[i] \in Whitespace THEN "_" ELSE LowerChar(name[i])]

\* name.toLowerCase().replace(/\s+/g, '_')
DeriveIdentity(name) == ReplaceWhitespaceRuns(ToLowerCase(name))

\* config.name?.toLowerCase().replace(/\s+/g, '_') || `agent_${Date.now()}`
AgentIdOf(config, time) ==
    LET derived == IF config.name.t = "undefined" THEN Undefined
                   ELSE StrV(DeriveIdentity(config.name.s))
    IN OrElse(derived, StrV(AgentPrefix \o NumToStr(time))).s

\* the agent object of the create response
AgentView(agentId, config) ==
    [id |-> agentId,
     name |-> OrElse(config.name, StrV(DefaultName)).s,
     instructions |-> OrElse(config.instructions, StrV(DefaultInstructions)).s,
     personality |-> OrElse(config.personality, StrV(DefaultPersonality)).s,
     model |-> OrElse(config.model, StrV(DefaultModel)).s,
     maxMemoryMessages |-> OrElse(config.maxMemoryMessages, NumV(DefaultMaxMemoryMessages))]

NoView ==
    [id |-> <<>>, name |-> <<>>, instructions |-> <<>>, personality |-> <<>>,
     model |-> <<>>, maxMemoryMessages |-> Undefined]

----------------------------------------------------------------------------
(* The registry: the agentInstances object *)

\* Object.prototype, the [[Prototype]] of the object literal {}
ObjectPrototype == NonAgent("object")

\* agentInstances[key]: an own property, else what the prototype chain gives.
\* Of the inherited names only __proto__ (the accessor returning the
\* [[Prototype]]) and constructor (a function) are among the keys looked up.
Get(own, prototype, key) ==
    IF key \in DOMAIN own THEN own[key]
    ELSE IF key = ProtoKey THEN prototype
    ELSE IF key = ConstructorKey THEN NonAgent("function")
    ELSE NonAgent("undefined")

\* the own properties after agentInstances[key] = agent
SetOwn(own, key, agent) ==
    IF key = ProtoKey THEN own
    ELSE [k \in DOMAIN own \cup {key} |-> IF k = key THEN agent ELSE own[k]]

\* the [[Prototype]] after agentInstances[key] = agent: assigning to
\* __proto__ runs the inherited setter
SetProto(prototype, key, agent) == IF key = ProtoKey THEN agent ELSE prototype

\* !agent
NotFound(agent) == agent.kind = "undefined"

\* Object.keys(agentInstances).length
KeyCount(own) == Cardinality(DOMAIN own)

----------------------------------------------------------------------------
(* The invocation collaborator: agent.stream(message, {threadId, resourceId}) *)

\* the text the model produces, in fragments: result.textStream yields them
\* one at a time, and after any of them it can end or fail
Reply == <<Hello, <<" ">>, Friendly, <<"!">>, Formal>>

\* the fragment result.textStream yields after those of yielded
NextFragment(yielded) == Reply[Len(yielded) + 1]

NoCall ==
    [made |-> FALSE, systemPrompt |-> <<>>, message |-> <<>>,
     options |-> [threadId |-> <<>>, resourceId |-> <<>>]]

\* agent.stream(message, {threadId, resourceId}): what the collaborator is given
StreamCall(agent, message, threadId, resourceId) ==
    [made |-> TRUE, systemPrompt |-> agent.instructions, message |-> message,
     options |-> [threadId |-> threadId, resourceId |-> resourceId]]

----------------------------------------------------------------------------
(* HTTP server: requests and responses *)

Slots == 1..MaxRequests

NoCreateReq == [sent |-> FALSE, hasBody |-> FALSE, body |-> EmptyConfig]

NoCreateRes == [status |-> 0, agent |-> NoView]

NoHealthRes == [status |-> 0, agents |-> 0]

NoInteractRes == [status |-> 0, response |-> <<>>, threadId |-> <<>>, resourceId |-> <<>>]

Body(message, threadId, resourceId) ==
    [message |-> message, threadId |-> threadId, resourceId |-> resourceId]

IdleRequest ==
    [pc |-> "idle", agentId |-> <<>>, body |-> Body(Undefined, Undefined, Undefined),
     agent |-> NonAgent("undefined"), call |-> NoCall,
     textStream |-> <<>>, failed |-> FALSE,
     fullResponse |-> <<>>, response |-> <<>>, res |-> NoInteractRes]

\* Date.now() advances
Tick ==
    /\ now < StartTime + MaxTicks
    /\ now' = now + 1
    /\ UNCHANGED <<agentInstances, proto, mastraInstance, views, created,
                   createReq, createRes, healthRes, reqs, cli>>

\* POST /create-agent without a body: if (!config)
CreateAgentNoBody ==
    /\ createReq' = [sent |-> TRUE, hasBody |-> FALSE, body |-> EmptyConfig]
    /\ createRes' = [status |-> 400, agent |-> NoView]
    /\ UNCHANGED <<now, agentInstances, proto, mastraInstance, views, created,
                   healthRes, reqs, cli>>

\* POST /create-agent with body config
CreateAgent(config) ==
    LET agentId == AgentIdOf(config, now)
        agent == CreateAgentTemplate(config)
        view == AgentView(agentId, config)
    IN /\ agentInstances' = SetOwn(agentInstances, agentId, agent)
       /\ proto' = SetProto(proto, agentId, agent)
       /\ mastraInstance' = agentInstances'
       /\ createReq' = [sent |-> TRUE, hasBody |-> TRUE, body |-> config]
       /\ createRes' = [status |-> 200, agent |-> view]
       /\ views' = [k \in DOMAIN views \cup {agentId} |->
                        IF k = agentId THEN view ELSE views[k]]
       /\ created' = created \cup {agentId}
       /\ UNCHANGED <<now, healthRes, reqs, cli>>

\* GET /health
HealthCheck ==
    /\ healthRes' = [status |-> 200, agents |-> KeyCount(agentInstances)]
    /\ UNCHANGED <<now, agentInstances, proto, mastraInstance, views, created,
                   createReq, createRes, reqs, cli>>

\* the variables no step of an interact request changes
InteractUnchanged ==
    UNCHANGED <<now, agentInstances, proto, mastraInstance, views, created,
                createReq, createRes, healthRes, cli>>

\* `thread_${Date.now()}`
ThreadToken(time) == ThreadPrefix \o NumToStr(time)

\* `user_${Date.now()}` written with the prefix of the thread token
UserTokenThreadPrefix(time) == ThreadPrefix \o NumToStr(time)

\* `user_${Date.now()}`
UserToken(time) == UserPrefix \o NumToStr(time)

\* a request with its response sent: the handler has returned, what stays is
\* the request, the call made for it and the response
Responded(req, res) ==
    [IdleRequest EXCEPT !.pc = "done", !.agentId = req.agentId, !.body = req.body,
                        !.call = req.call, !.failed = req.failed,
                        !.response = req.response, !.res = res]

\* a request whose call of simulateConversation has returned text
SimReturned(req, text) ==
    [req EXCEPT !.pc = "respond", !.response = text,
                !.textStream = <<>>, !.fullResponse = <<>>]

\* POST /interact/:agentId, up to the first await: validation, the registry
\* lookup, and simulateConversation up to its call of agent.stream.  A value
\* that is no Agent has no stream method: the call throws inside the try and
\* simulateConversation returns the apology.
InteractBegin(r, agentId, body) ==
    LET fresh == [IdleRequest EXCEPT !.agentId = agentId, !.body = body]
        agent == Get(agentInstances, proto, agentId)
        threadId == OrElse(body.threadId, StrV(ThreadToken(now))).s
        resourceId == OrElse(body.resourceId, StrV(UserToken(now))).s
        \* simulateConversation: threadId || `thread_${Date.now()}`
        passedThreadId == OrElse(StrV(threadId), StrV(ThreadToken(now))).s
        passedResourceId == OrElse(StrV(resourceId), StrV(UserToken(now))).s
    IN /\ reqs[r].pc \in {"idle", "done"}
       /\ reqs' = [reqs EXCEPT ![r] =
             IF Falsy(body.message)
             THEN Responded(fresh, [NoInteractRes EXCEPT !.status = 400])
             ELSE IF NotFound(agent)
             THEN Responded(fresh, [NoInteractRes EXCEPT !.status = 404])
             ELSE IF agent.kind # "agent"
             THEN SimReturned([fresh EXCEPT !.agent = agent], Apology)
             ELSE [fresh EXCEPT !.pc = "awaitStream", !.agent = agent,
                                !.call = StreamCall(agent, body.message.s,
                                                    passedThreadId, passedResourceId)]]
       /\ InteractUnchanged

\* simulateConversation: await streamResult resolves with a stream
SimResolve(r) ==
    /\ reqs[r].pc = "awaitStream"
    /\ reqs' = [reqs EXCEPT ![r].pc = "streaming"]
    /\ InteractUnchanged

\* simulateConversation: for await takes the next chunk; fullResponse += chunk
SimChunk(r) ==
    /\ reqs[r].pc = "streaming"
    /\ Len(reqs[r].textStream) < MaxFragments
    /\ LET chunk == NextFragment(reqs[r].textStream)
       IN reqs' = [reqs EXCEPT ![r].textStream = Append(@, chunk),
                               ![r].fullResponse = @ \o chunk]
    /\ InteractUnchanged

\* simulateConversation: the stream is exhausted; return fullResponse
SimEnd(r) ==
    /\ reqs[r].pc = "streaming"
    /\ reqs' = [reqs EXCEPT ![r] = SimReturned(reqs[r], reqs[r].fullResponse)]
    /\ InteractUnchanged

\* the failure with no catch in simulateConversation: it reaches the catch of
\* the handler, which answers with status 500
SimFailPropagates(r) ==
    /\ reqs[r].pc \in {"awaitStream", "streaming"}
    /\ reqs' = [reqs EXCEPT ![r] = Responded([reqs[r] EXCEPT !.failed = TRUE],
                                             [NoInteractRes EXCEPT !.status = 500])]
    /\ InteractUnchanged

\* simulateConversation: the collaborator fails, when the stream is awaited
\* or at a fragment; the catch returns the apology
SimFail(r) ==
    /\ reqs[r].pc \in {"awaitStream", "streaming"}
    /\ reqs' = [reqs EXCEPT ![r] = SimReturned([reqs[r] EXCEPT !.failed = TRUE], Apology)]
    /\ InteractUnchanged

\* interactAgentHandler after await simulateConversation: res.status(200).json
InteractRespond(r) ==
    /\ reqs[r].pc = "respond"
    /\ reqs' = [reqs EXCEPT ![r] = Responded(reqs[r],
                  [status |-> 200,
                   response |-> reqs[r].response,
                   threadId |-> OrElse(reqs[r].body.threadId, StrV(ThreadToken(now))).s,
                   resourceId |-> OrElse(reqs[r].body.resourceId, StrV(UserToken(now))).s])]
    /\ InteractUnchanged

----------------------------------------------------------------------------
(* Command-line demo: runDemo and streamConversation *)

CliUnchanged ==
    UNCHANGED <<now, agentInstances, proto, mastraInstance, views, created,
                createReq, createRes, healthRes, reqs>>

\* runDemo before its first question
CliStart ==
    [pc |-> "askName", config |-> EmptyConfig, agent |-> NonAgent("undefined"),
     registeredId |-> <<>>, shownModel |-> <<>>, threadId |-> <<>>, resourceId |-> <<>>,
     messageCounter |-> 0, call |-> NoCall, textStream |-> <<>>,
     delivered |-> <<>>, failed |-> FALSE, fullResponse |-> <<>>, result |-> <<>>]

\* config.name = await ask(...); if (!config.name) config.name = 'Demo Agent'
AskName(answer) ==
    /\ cli.pc = "askName"
    /\ cli' = [cli EXCEPT !.pc = "askInstructions",
                          !.config.name = OrElse(StrV(answer), StrV(DemoName))]
    /\ CliUnchanged

\* config.instructions = await ask(...), defaulted when blank
AskInstructions(answer) ==
    /\ cli.pc = "askInstructions"
    /\ cli' = [cli EXCEPT !.pc = "askPersonality",
                 !.config.instructions = OrElse(StrV(answer), StrV(DefaultInstructions))]
    /\ CliUnchanged

\* config.personality = await ask(...), defaulted when blank
AskPersonality(answer) ==
    /\ cli.pc = "askPersonality"
    /\ cli' = [cli EXCEPT !.pc = "askMaxMemory",
                 !.config.personality = OrElse(StrV(answer), StrV(DefaultPersonality))]
    /\ CliUnchanged

\* maxMemoryInput ? parseInt(maxMemoryInput, 10) : 10
DemoMaxMemory(answer) ==
    IF Falsy(StrV(answer)) THEN NumV(DefaultMaxMemoryMessages) ELSE ParseInt(answer)

\* the answer to the last configuration question, then the creation of the
\* agent, its registration, the printed summary and the session identifiers
AskMaxMemory(answer) ==
    LET config == [cli.config EXCEPT !.maxMemoryMessages = DemoMaxMemory(answer)]
    IN /\ cli.pc = "askMaxMemory"
       /\ cli' = [cli EXCEPT
                    !.pc = "askMessage",
                    !.config = config,
                    !.agent = CreateAgentTemplate(config),
                    !.registeredId = DeriveIdentity(config.name.s),
                    !.shownModel = OrElse(config.model, StrV(DemoShownModel)).s,
                    !.threadId = ThreadToken(now),
                    !.resourceId = UserToken(now)]
       /\ CliUnchanged

\* userMessage.toLowerCase() === 'exit'
IsExit(answer) == ToLowerCase(answer) = Exit

\* the user types exit: the loop ends and rl.close() runs
AskMessageExit(answer) ==
    /\ cli.pc = "askMessage"
    /\ IsExit(answer)
    /\ cli' = [cli EXCEPT !.pc = "closed", !.messageCounter = @ + 1]
    /\ CliUnchanged

\* the user types a message: streamConversation up to its call of agent.stream
AskMessage(answer) ==
    /\ cli.pc = "askMessage"
    /\ ~IsExit(answer)
    /\ cli.messageCounter < MaxMessages
    /\ cli' = [cli EXCEPT
                 !.pc = "awaitStream",
                 !.messageCounter = @ + 1,
                 !.call = StreamCall(cli.agent, answer, cli.threadId, cli.resourceId),
                 !.textStream = <<>>, !.delivered = <<>>,
                 !.failed = FALSE, !.fullResponse = <<>>, !.result = <<>>]
    /\ CliUnchanged

\* streamConversation: await streamResult resolves with a stream
StreamResolve ==
    /\ cli.pc = "awaitStream"
    /\ cli' = [cli EXCEPT !.pc = "streaming"]
    /\ CliUnchanged

\* the loop body with the call of onChunk left out
StreamChunkSilent ==
    /\ cli.pc = "streaming"
    /\ Len(cli.textStream) < MaxFragments
    /\ LET chunk == NextFragment(cli.textStream)
       IN cli' = [cli EXCEPT !.textStream = Append(@, chunk),
                             !.fullResponse = @ \o chunk]
    /\ CliUnchanged

\* streamConversation: for await takes the next chunk; onChunk(chunk) writes
\* it to stdout; fullResponse += chunk
StreamChunk ==
    /\ cli.pc = "streaming"
    /\ Len(cli.textStream) < MaxFragments
    /\ LET chunk == NextFragment(cli.textStream)
       IN cli' = [cli EXCEPT !.textStream = Append(@, chunk),
                             !.delivered = Append(@, chunk),
                             !.fullResponse = @ \o chunk]
    /\ CliUnchanged

\* streamConversation: the stream is exhausted; return fullResponse
StreamEnd ==
    /\ cli.pc = "streaming"
    /\ cli' = [cli EXCEPT !.pc = "askMessage", !.result = cli.fullResponse]
    /\ CliUnchanged

\* streamConversation: the collaborator fails, when the stream is awaited or
\* at a fragment; the catch returns the apology
StreamFail ==
    /\ cli.pc \in {"awaitStream", "streaming"}
    /\ cli' = [cli EXCEPT !.pc = "askMessage", !.failed = TRUE, !.result = Apology]
    /\ CliUnchanged

----------------------------------------------------------------------------
(* Inputs *)

JsStrings(S) == { StrV(s) : s \in S }

\* bodies of POST /create-agent for the one-shot normalisation runs
NormConfigs ==
    { Config(n, i, p, m, k) :
        n \in {Undefined} \cup JsStrings({<<>>, FriendlyBot, MultiSpace, TabbedName, <<" ">>}),
        i \in {Undefined} \cup JsStrings({<<>>, BeKind, PaddedInstructions, <<"\n">>}),
        p \in {Undefined} \cup JsStrings({<<>>, Friendly}),
        m \in {Undefined} \cup JsStrings({<<>>, Gpt4oMini}),
        k \in {Undefined, NumV(0), NumV(5), NumV(0 - 5)} }

ConfigA == Config(StrV(FriendlyBot), StrV(BeKind), StrV(Friendly), Undefined, NumV(5))
ConfigB == Config(StrV(FriendlyBotLower), Undefined, StrV(Formal), StrV(Gpt4oMini), Undefined)
ConfigP == Config(StrV(ProtoKey), Undefined, Undefined, Undefined, Undefined)

ConfigC == Config(StrV(ConstructorKey), Undefined, Undefined, Undefined, NumV(0 - 5))

\* bodies of POST /create-agent
ServerConfigs == {ConfigA, ConfigB, ConfigP}

RegistryConfigs == {EmptyConfig, ConfigA, ConfigB, ConfigP, ConfigC}

ConcurrentConfigs == {ConfigA, ConfigB}

\* :agentId of POST /interact/:agentId
RequestIds == {FriendlyBotId, NobodyId, ConstructorKey, ProtoKey}

ConcurrentIds == {FriendlyBotId, NobodyId}

\* bodies of POST /interact/:agentId
RequestBodies ==
    { Body(StrV(Hello), Undefined, Undefined),
      Body(StrV(Hello), StrV(T1), StrV(U1)),
      Body(StrV(Hello), StrV(T1), Undefined),
      Body(StrV(Hello), StrV(<<>>), StrV(U1)),
      Body(Undefined, StrV(T1), StrV(U1)) }

ConcurrentBodies == { Body(StrV(Hello), StrV(T1), StrV(U1)) }

\* :agentId of the requests interleaved with creates
InterleavedIds == {FriendlyBotId, ProtoKey}

\* answers typed at the prompts of the demo
NameAnswers == {<<>>, FriendlyBot, MultiSpace}

InstructionAnswers == {<<>>, PaddedInstructions}

PersonalityAnswers == {<<>>, Friendly}

MaxMemoryAnswers ==
    {<<>>, <<"5">>, <<"-", "3">>, <<"0">>, <<"a", "b", "c">>, <<" ", "1", "2", "x">>}

MessageAnswers == {Hello, Exit, <<"E", "x", "i", "t">>}


----------------------------------------------------------------------------
(* Specifications *)

\* the state when the process has started
Init ==
    /\ now = StartTime
    /\ agentInstances = <<>>
    /\ proto = ObjectPrototype
    /\ mastraInstance = <<>>
    /\ views = <<>>
    /\ created = {}
    /\ createReq = NoCreateReq
    /\ createRes = NoCreateRes
    /\ healthRes = NoHealthRes
    /\ reqs = [r \in Slots |-> IdleRequest]
    /\ cli = CliStart

\* the steps of the interact request in slot r
InteractSteps(r) ==
    \/ SimResolve(r)
    \/ SimChunk(r)
    \/ SimEnd(r)
    \/ SimFail(r)
    \/ InteractRespond(r)

\* the server, serving one interact request at a time
Next ==
    \/ Tick
    \/ \E config \in ServerConfigs : CreateAgent(config)
    \/ \E agentId \in RequestIds, body \in RequestBodies : InteractBegin(1, agentId, body)
    \/ InteractSteps(1)

Spec == Init /\ [][Next]_vars

\* the registry alone: create and health requests
NextRegistry ==
    \/ Tick
    \/ CreateAgentNoBody
    \/ \E config \in RegistryConfigs : CreateAgent(config)
    \/ HealthCheck

SpecRegistry == Init /\ [][NextRegistry]_vars

\* slot r is the first slot with no request in flight: a new request takes it
FirstFree(r) ==
    /\ reqs[r].pc \in {"idle", "done"}
    /\ \A q \in Slots : q < r => reqs[q].pc \notin {"idle", "done"}

\* the server with interact requests in flight together; their identifiers
\* are supplied, so that the clock plays no part
NextConcurrent ==
    \/ \E config \in ConcurrentConfigs : CreateAgent(config)
    \/ \E r \in Slots, agentId \in ConcurrentIds, body \in ConcurrentBodies :
          FirstFree(r) /\ InteractBegin(r, agentId, body)
    \/ \E r \in Slots : InteractSteps(r)

SpecConcurrent == Init /\ [][NextConcurrent]_vars

\* the server with create requests arriving while interact requests are
\* suspended at the collaborator
NextInterleaved ==
    \/ \E config \in ServerConfigs : CreateAgent(config)
    \/ \E r \in Slots, agentId \in InterleavedIds, body \in ConcurrentBodies :
          FirstFree(r) /\ InteractBegin(r, agentId, body)
    \/ \E r \in Slots : InteractSteps(r)

SpecInterleaved == Init /\ [][NextInterleaved]_vars

\* one create request, over the product of the configuration fields
NextNormalize ==
    /\ ~createReq.sent
    /\ \E config \in NormConfigs : CreateAgent(config)

SpecNormalize == Init /\ [][NextNormalize]_vars

\* the command-line demo
NextDemo ==
    \/ Tick
    \/ \E answer \in NameAnswers : AskName(answer)
    \/ \E answer \in InstructionAnswers : AskInstructions(answer)
    \/ \E answer \in PersonalityAnswers : AskPersonality(answer)
    \/ \E answer \in MaxMemoryAnswers : AskMaxMemory(answer)
    \/ \E answer \in MessageAnswers : AskMessage(answer)
    \/ \E answer \in MessageAnswers : AskMessageExit(answer)
    \/ StreamResolve
    \/ StreamChunk
    \/ StreamEnd
    \/ StreamFail

SpecDemo == Init /\ [][NextDemo]_vars

----------------------------------------------------------------------------
(* Claims *)

\* the interact requests that were answered with status 200 after the
\* collaborator was invoked
Answered(r) == reqs[r].pc = "done" /\ reqs[r].res.status = 200 /\ reqs[r].call.made

\* C1: every successful interact response carries the threadId and the
\* resourceId under which the message was handed to the collaborator, whether
\* the caller supplied them or they were synthesized.
C1_EchoedIdentifiers ==
    \A r \in Slots :
        Answered(r) =>
            /\ reqs[r].res.threadId = reqs[r].call.options.threadId
            /\ reqs[r].res.resourceId = reqs[r].call.options.resourceId

\* a create request with a body was answered
Created == createReq.sent /\ createReq.hasBody /\ createRes.status = 200

\* the name of the last create request is a non-empty string
NamedCreate == Created /\ ~Falsy(createReq.body.name)

\* the positions of name that survive: every character that is no whitespace,
\* and the first character of every run of whitespace
Kept(name) ==
    { i \in DOMAIN name : name[i] \notin Whitespace \/ i = 1 \/ name[i - 1] \notin Whitespace }

\* id is name lower-cased with every run of whitespace replaced by one underscore
IsLoweredUnderscored(name, id) ==
    /\ Len(id) = Cardinality(Kept(name))
    /\ \A i \in Kept(name) :
          id[Cardinality({ j \in Kept(name) : j <= i })] =
              IF name[i] \in Whitespace THEN "_" ELSE LowerChar(name[i])

\* C2 (as amended): for every non-empty name the identity derived at creation
\* is the name lower-cased with every run of whitespace, leading and trailing
\* runs included, replaced by one underscore: "Friendly Bot" yields
\* "friendly_bot" and "  multi   space  " yields "_multi_space_".
C2_IdentityDerivation ==
    NamedCreate =>
        /\ IsLoweredUnderscored(createReq.body.name.s, createRes.agent.id)
        /\ createReq.body.name.s = FriendlyBot => createRes.agent.id = FriendlyBotId
        /\ createReq.body.name.s = MultiSpace => createRes.agent.id = MultiSpaceId

\* C2 as claimed: "  multi   space  " yields "multi_space".
C2_Original ==
    NamedCreate =>
        /\ IsLoweredUnderscored(createReq.body.name.s, createRes.agent.id)
        /\ createReq.body.name.s = FriendlyBot => createRes.agent.id = FriendlyBotId
        /\ createReq.body.name.s = MultiSpace => createRes.agent.id = MultiSpaceTrimmedId

\* a name with leading, trailing and repeated inner whitespace was registered
C2_Witness ==
    /\ NamedCreate
    /\ createReq.body.name.s = MultiSpace
    /\ createRes.agent.id \in DOMAIN agentInstances

\* the handler of slot r has called the collaborator and not yet returned
Invoked(r) == reqs[r].call.made /\ reqs[r].pc # "done"

\* C3: the collaborator receives a memory limit equal to the maxMemoryMessages
\* of the definition conversed with, together with its system prompt, the
\* message, the thread id and the resource id.
C3_MemoryLimitPassed ==
    \A r \in Slots :
        Invoked(r) =>
            /\ reqs[r].call.systemPrompt = reqs[r].agent.instructions
            /\ reqs[r].call.message = reqs[r].body.message.s
            /\ "memoryLimit" \in DOMAIN reqs[r].call.options
            /\ reqs[r].call.options.memoryLimit =
                   views[reqs[r].agentId].maxMemoryMessages.n

\* the definition the last create of the view's identity was built from
DefinitionOf(view) ==
    NewAgent(view.name,
             FullInstructions(view.instructions, view.name, view.personality),
             view.model)

\* what every state shows of C4: looking up a created identity returns the
\* definition of its most recent create, and the registry has one entry for
\* each distinct identity created
C4_Registry ==
    /\ \A id \in created : Get(agentInstances, proto, id) = DefinitionOf(views[id])
    /\ KeyCount(agentInstances) = Cardinality(created)

\* what every step shows of C4: a create leaves the entries of the other
\* identities as they were
C4_OthersKept ==
    \A id \in created :
        id # createRes'.agent.id =>
            Get(agentInstances', proto', id) = Get(agentInstances, proto, id)

\* C4: after any sequence of creates, looking up an identity returns exactly
\* the definition of the most recent create that derived it, the entries of
\* the other identities are unchanged by that create, and the number of
\* registry entries equals the number of distinct identities created.
C4_LastWriteWins == []C4_Registry /\ [][C4_OthersKept]_vars

\* the request of slot r carries a message and names an identity that no
\* create has derived
Unregistered(r) ==
    /\ reqs[r].pc # "idle"
    /\ ~Falsy(reqs[r].body.message)
    /\ reqs[r].agentId \notin created

\* what every state shows of C5: such a request has ended in a not-found
\* response without a call of the collaborator
C5_Response ==
    \A r \in Slots :
        Unregistered(r) =>
            /\ reqs[r].pc = "done"
            /\ reqs[r].res.status = 404
            /\ ~reqs[r].call.made

\* what every step shows of C5: no step of an interact request changes the
\* registry
C5_RegistryKept ==
    reqs' # reqs => agentInstances' = agentInstances /\ proto' = proto

\* C5: a converse request with a message for an agentId that has no registry
\* entry ends in a not-found response, never invokes the collaborator and
\* leaves the registry as it was.
C5_NotFound == []C5_Response /\ [][C5_RegistryKept]_vars

\* the value of a field: the supplied one when present and non-empty, else the default
Supplied(v, default) == IF v.t = "string" /\ v.s # <<>> THEN v.s ELSE default

\* C6: creation yields name, personality, model and maxMemoryMessages, each the
\* supplied value when present and non-empty and otherwise the default, and
\* the view returned equals the values the registered agent was built with.
C6_DefaultFilling ==
    Created =>
        LET view == createRes.agent
            agent == Get(agentInstances, proto, view.id)
        IN /\ view.name = Supplied(createReq.body.name, DefaultName)
           /\ view.personality = Supplied(createReq.body.personality, DefaultPersonality)
           /\ view.model = Supplied(createReq.body.model, DefaultModel)
           /\ view.maxMemoryMessages =
                  IF Falsy(createReq.body.maxMemoryMessages)
                  THEN NumV(DefaultMaxMemoryMessages)
                  ELSE createReq.body.maxMemoryMessages
           /\ agent.name = view.name
           /\ agent.model = view.model
           /\ "maxMemoryMessages" \in DOMAIN agent
           /\ agent.maxMemoryMessages = view.maxMemoryMessages

\* C7: in every definition produced by a create, maxMemoryMessages is a
\* positive integer, 10 when the field was not supplied.
C7_PositiveMemory ==
    Created =>
        /\ createRes.agent.maxMemoryMessages.t = "number"
        /\ createRes.agent.maxMemoryMessages.n > 0
        /\ createReq.body.maxMemoryMessages.t = "undefined"
              => createRes.agent.maxMemoryMessages.n = DefaultMaxMemoryMessages

SetMin(S) == CHOOSE x \in S : \A y \in S : x <= y
SetMax(S) == CHOOSE x \in S : \A y \in S : y <= x

\* s from its first to its last character that is no whitespace
Trimmed(s) ==
    LET solid == { i \in DOMAIN s : s[i] \notin Whitespace }
    IN IF solid = {} THEN <<>> ELSE SubSeq(s, SetMin(solid), SetMax(solid))

\* the three lines: instructions, "Your name is {name}.", "Please respond in
\* a {personality} tone."
ThreeLines(instructions, name, personality) ==
    instructions \o <<"\n">> \o NameIs \o name \o <<".">> \o <<"\n">>
        \o RespondInA \o personality \o Tone

\* C8: the system prompt of the created agent is the three lines, in order,
\* of the default-filled instructions, name and personality, trimmed; it is a
\* function of those three values alone.
C8_PromptComposition ==
    Created =>
        LET view == createRes.agent
        IN Get(agentInstances, proto, view.id).instructions =
               Trimmed(ThreeLines(view.instructions, view.name, view.personality))

\* an agent was created from instructions with leading and trailing whitespace
C8_Witness ==
    /\ Created
    /\ createReq.body.instructions = StrV(PaddedInstructions)
    /\ createReq.body.name = StrV(TabbedName)
    /\ Get(agentInstances, proto, createRes.agent.id).instructions # <<>>

\* the conversation of slot r has returned to the handler
Returned(r) == reqs[r].pc \in {"respond", "done"}

\* what every state shows of C9: a conversation whose collaborator failed has
\* returned the apology, which the handler relays with status 200
C9_Results ==
    \A r \in Slots :
        reqs[r].failed =>
            /\ Returned(r)
            /\ reqs[r].response = Apology
            /\ reqs[r].pc = "done" =>
                  reqs[r].res.status = 200 /\ reqs[r].res.response = Apology

\* what every step shows of C9: the step in which a collaborator fails leaves
\* the registry and every other request as they were; a conversation whose
\* collaborator did not fail returns its own fragments, and the handler
\* relays what the conversation returned
C9_Isolation ==
    \A r \in Slots :
        /\ (reqs'[r].failed /\ ~reqs[r].failed) =>
              /\ agentInstances' = agentInstances
              /\ proto' = proto
              /\ \A q \in Slots \ {r} : reqs'[q] = reqs[q]
        /\ (reqs[r].pc = "streaming" /\ reqs'[r].pc = "respond" /\ ~reqs'[r].failed) =>
              reqs'[r].response = Concat(reqs[r].textStream)
        /\ (reqs[r].pc = "respond" /\ reqs'[r].pc = "done") =>
              reqs'[r].res.status = 200 /\ reqs'[r].res.response = reqs[r].response

\* C9: when the collaborator fails, as the stream is requested or at any
\* fragment, simulateConversation does not propagate the failure: it returns
\* the fixed apology, the registry is unchanged, and the other conversations
\* keep their own results.
C9_FailureContained == []C9_Results /\ [][C9_Isolation]_vars

\* one conversation failed and was answered with the apology, and another
\* was answered with its own complete text
C9_Witness ==
    \E r, q \in Slots :
        /\ r # q
        /\ reqs[r].failed /\ reqs[r].pc = "done" /\ reqs[r].res.response = Apology
        /\ reqs[q].pc = "done" /\ reqs[q].call.made /\ ~reqs[q].failed
        /\ reqs[q].res.response = Concat(SubSeq(Reply, 1, MaxFragments))

\* the chunks handed to onChunk belong to the conversation in progress
SameConversation == cli'.messageCounter = cli.messageCounter

\* streamConversation is not in progress
StreamReturned == cli.pc \in {"askMessage", "closed"}

\* what every state shows of C10: the fragments delivered are a prefix of the
\* collaborator's sequence, each delivered once; a completed stream delivered
\* them all and returned their concatenation; a failed one returned the apology
C10_Delivery ==
    /\ cli.delivered = SubSeq(cli.textStream, 1, Len(cli.delivered))
    /\ Len(cli.delivered) <= Len(cli.textStream)
    /\ IsPrefix(cli.textStream, Reply)
    /\ (StreamReturned /\ cli.call.made /\ ~cli.failed) =>
          /\ cli.delivered = cli.textStream
          /\ cli.result = Concat(cli.textStream)
    /\ cli.failed => StreamReturned /\ cli.result = Apology

\* what every step shows of C10: within a conversation the delivered
\* fragments are only ever extended, by one fragment at a time, and the step
\* that signals the failure delivers nothing
C10_NoRetraction ==
    SameConversation =>
        /\ IsPrefix(cli.delivered, cli'.delivered)
        /\ Len(cli'.delivered) <= Len(cli.delivered) + 1
        /\ (cli'.failed /\ ~cli.failed) => cli'.delivered = cli.delivered

\* C10: during a streamed conversation the fragments delivered to the callback
\* are at every moment a prefix of the collaborator's sequence, in order and
\* once each; a completed stream delivered all of them and returns their
\* concatenation; after a failure mid-stream the delivered fragments stay and
\* the failure is signalled after them.
C10_OrderedRelay == []C10_Delivery /\ [][C10_NoRetraction]_vars

\* a stream failed after its first fragment was delivered
C10_Witness ==
    /\ cli.failed
    /\ cli.textStream = <<Hello>>
    /\ cli.delivered = <<Hello>>
    /\ cli.result = Apology

\* the identifier was supplied: a string that is not empty
SuppliedId(v) == v.t = "string" /\ v.s # <<>>

\* the times Date.now() has returned so far
PastTimes == StartTime..now

\* id is what the resolution of the body's value v gives: v itself when it
\* was supplied, else the token of a time, built by token
ResolvedAs(id, v, token(_)) ==
    IF SuppliedId(v) THEN id = v.s
    ELSE \E time \in PastTimes : id = token(time)

\* the pair (threadId, resourceId) resolved from the body
ResolvedPair(threadId, resourceId, body) ==
    /\ ResolvedAs(threadId, body.threadId, ThreadToken)
    /\ ResolvedAs(resourceId, body.resourceId, UserToken)
    /\ threadId # <<>>
    /\ resourceId # <<>>
    /\ (~SuppliedId(body.threadId) /\ ~SuppliedId(body.resourceId)) =>
          threadId # resourceId

\* what every state shows of C11: the pair handed to the collaborator, and
\* the pair of the success response, are resolved from the body
C11_Pairs ==
    \A r \in Slots :
        /\ reqs[r].call.made =>
              ResolvedPair(reqs[r].call.options.threadId,
                           reqs[r].call.options.resourceId, reqs[r].body)
        /\ (reqs[r].pc = "done" /\ reqs[r].res.status = 200) =>
              ResolvedPair(reqs[r].res.threadId, reqs[r].res.resourceId, reqs[r].body)

\* what every step shows of C11: the step that takes a request in rejects it
\* exactly when the message is missing or the agent is not found, whatever
\* identifiers it carries; every other request reaches the resolution
C11_NoValidation ==
    \A r \in Slots :
        (reqs[r].pc \in {"idle", "done"} /\ reqs'[r] # reqs[r]) =>
            LET rejected == reqs'[r].pc = "done" /\ reqs'[r].res.status \in {400, 404}
                agent == Get(agentInstances, proto, reqs'[r].agentId)
            IN /\ rejected <=> (Falsy(reqs'[r].body.message) \/ NotFound(agent))
               /\ (~rejected /\ agent.kind = "agent") => reqs'[r].call.made

\* C11: threadId and resourceId are resolved independently: a supplied one is
\* passed through unchanged and is never checked against earlier requests, an
\* absent or empty one is replaced by a token derived from the time, and the
\* resulting pair is two non-empty strings, different from each other when
\* both were synthesized.
C11_SessionResolution == []C11_Pairs /\ [][C11_NoValidation]_vars

\* a request that supplied the threadId alone was answered: the collaborator
\* was given that threadId and a synthesized resourceId
C11_Witness ==
    /\ reqs[1].pc = "done"
    /\ reqs[1].res.status = 200
    /\ reqs[1].body.threadId = StrV(T1)
    /\ reqs[1].body.resourceId = Undefined
    /\ reqs[1].call.made
    /\ reqs[1].call.options.threadId = T1
    /\ reqs[1].call.options.resourceId = UserToken(StartTime)
    /\ now > StartTime

\* the step is a create request that was answered
CreateStep ==
    <<createReq, createRes, agentInstances, proto, views>>' #
        <<createReq, createRes, agentInstances, proto, views>>

\* the step takes a request in at slot r
BeginStep(r) == reqs[r].pc \in {"idle", "done"} /\ reqs'[r] # reqs[r]

\* the conversation of slot r is suspended or about to be answered
InFlight(r) == reqs[r].pc \in {"awaitStream", "streaming", "respond"}

\* the write of a create step: the key of the identity it answers with holds
\* the whole new definition, and nothing else of the registry has changed
C12_Write ==
    CreateStep =>
        LET key == createRes'.agent.id
        IN /\ DOMAIN agentInstances' = DOMAIN agentInstances \cup {key}
           /\ agentInstances'[key] = DefinitionOf(createRes'.agent)
           /\ \A k \in DOMAIN agentInstances \ {key} :
                  agentInstances'[k] = agentInstances[k]
           /\ proto' = proto

\* the lookup of a request for a registered identity: it observes the whole
\* definition of the last create answered for that identity, and hands that
\* definition to the collaborator
C12_Lookup ==
    \A r \in Slots :
        (BeginStep(r) /\ reqs'[r].agentId \in created) =>
            /\ reqs'[r].pc = "awaitStream"
            /\ reqs'[r].agent = DefinitionOf(views[reqs'[r].agentId])
            /\ reqs'[r].call.systemPrompt = reqs'[r].agent.instructions

\* a conversation in flight keeps the definition it looked up, whatever is
\* written meanwhile
C12_InFlight ==
    \A r \in Slots :
        InFlight(r) =>
            /\ reqs'[r].call = reqs[r].call
            /\ InFlight(r)' => reqs'[r].agent = reqs[r].agent

\* C12: under every interleaving of create and interact requests, a create
\* replaces exactly one key of the registry by the whole new definition, a
\* lookup of a registered identity observes the whole definition of the last
\* create for it, and a conversation in flight finishes with the definition
\* it looked up even when the identity is overwritten meanwhile.
C12_AtomicRegistry == [][C12_Write /\ C12_Lookup /\ C12_InFlight]_vars

====
